---------------------------- MODULE Spec2Model ----------------------------
(***************************************************************************)
(* Model of beanmachine/ppl/compiler/fix_problem.py: node fixers, the      *)
(* first_match and type_guard combinators, and the ancestors-first graph   *)
(* fixer that rewrites the input edges of a BMG graph one edge at a time.  *)
(*                                                                         *)
(* Nodes are identities 1..NumNodes.  Python's 0-based input index i is    *)
(* the 1-based index i+1 here.                                             *)
(***************************************************************************)
EXTENDS Integers, Sequences, FiniteSets, TLC

\* ------------------------------------------------------------------ bounds
NumNodes == 3
MaxInputs == 2
MaxPasses == 2
MaxFixers == 2

Node == 1..NumNodes
Index == 1..MaxInputs

\* ------------------------------------------------------- node fixer results
\* NodeFixerResult = Union[bn.BMGNode, None, NodeFixerError]; the two
\* NodeFixerError sentinels are Inapplicable and Fatal.
Inapplicable == [kind |-> "Inapplicable", node |-> 0]
Fatal == [kind |-> "Fatal", node |-> 0]
None == [kind |-> "None", node |-> 0]
BMGNode(n) == [kind |-> "Node", node |-> n]
NodeFixerResult == {BMGNode(n) : n \in Node} \cup {None, Inapplicable, Fatal}

\* isinstance(replacement, bn.BMGNode)
IsBMGNode(r) == r.kind = "Node"

VARIABLES
    inputs,           \* node.inputs of every node: [Node -> Seq(Node)]
    pure,             \* TRUE: node_fixer is a pure function; FALSE: any callable
    node_fixer,       \* the pure fixer's result per node
    get_error,        \* the optional get_error callback
    pc,               \* "idle" between passes, "scan" inside ancestors_first
    passes,           \* number of calls of the graph fixer so far
    nodes,            \* the list returned by bmg.all_ancestor_nodes()
    pos,              \* position of `node` in nodes (outer loop)
    i,                \* input index (inner loop)
    errors,           \* ErrorReport of the pass: sequence of diagnostics
    replacements,     \* dict: original node -> replacement node
    reported,         \* set of nodes an error was attempted for
    made_progress,
    node_was_updated,
    typer_updates,    \* typer.update_type calls of the pass, in order
    fixer_calls,      \* node_fixer invocations of the pass, per node
    fixer_results,    \* results node_fixer returned in the pass, per node
    rewritten,        \* edges <<n, i>> assigned in the pass
    inputs0,          \* inputs when the pass started
    returned,         \* what each finished pass returned and left behind
    fm_node,          \* first_match: the node it is applied to
    fm_fixers,        \* first_match: the fixers list
    fm_k,             \* first_match: position in the list
    fm_calls,         \* first_match: list positions invoked, with results
    fm_inner,         \* type_guard: list positions whose wrapped fixer ran
    fm_result,        \* first_match: the returned result
    fm_pc,            \* "off", "loop" or "returned"
    pf_inputs,        \* ProblemFixerBase: node.inputs of the graph of self._bmg
    pf_policy,        \* _needs_fixing and _get_replacement of the subclass
    pf_pc,            \* "off", "idle" between calls, "scan" inside fix_problems
    pf_calls,         \* number of finished calls of fix_problems
    pf_nodes,         \* fix_problems: nodes
    pf_pos,           \* fix_problems: position of `node` in nodes
    pf_i,             \* fix_problems: input index
    pf_errors,        \* self.errors, created once in __init__
    pf_replacements,  \* fix_problems: replacements
    pf_reported,      \* fix_problems: reported
    pf_node_was_updated,
    pf_typer_updates, \* self._typer.update_type calls of the call, in order
    pf_log,           \* policy methods invoked in the call, in order
    pf_inputs0,       \* pf_inputs when the call started
    pf_returned       \* what each finished call of fix_problems left behind

driverVars == <<inputs, pure, node_fixer, get_error, pc, passes, nodes, pos, i,
                errors, replacements, reported, made_progress, node_was_updated,
                typer_updates, fixer_calls, fixer_results, rewritten, inputs0,
                returned>>
fmVars == <<fm_node, fm_fixers, fm_k, fm_calls, fm_inner, fm_result, fm_pc>>
pfVars == <<pf_inputs, pf_policy, pf_pc, pf_calls, pf_nodes, pf_pos, pf_i,
            pf_errors, pf_replacements, pf_reported, pf_node_was_updated,
            pf_typer_updates, pf_log, pf_inputs0, pf_returned>>
vars == <<driverVars, fmVars, pfVars>>

\* ------------------------------------------------------------- the graph
Max(S) == CHOOSE x \in S : \A y \in S : y <= x
Min(S) == CHOOSE x \in S : \A y \in S : x <= y
Range(s) == {s[k] : k \in DOMAIN s}

\* The nodes of interest (samples, queries, observations).
Roots == {Max(Node)}

RECURSIVE AncestorsOf(_, _)
AncestorsOf(inp, S) ==
    LET T == S \cup UNION {Range(inp[n]) : n \in S}
    IN  IF T = S THEN S ELSE AncestorsOf(inp, T)

\* Kahn's algorithm over the ancestors of the roots: a node is emitted once
\* all of its inputs have been; ties go to the smallest node.
RECURSIVE TopoOrder(_, _, _)
TopoOrder(inp, todo, done) ==
    LET ready == {n \in todo : Range(inp[n]) \subseteq Range(done)}
    IN  IF ready = {} THEN done
        ELSE TopoOrder(inp, todo \ {Min(ready)}, Append(done, Min(ready)))

AllAncestorNodes(inp) == TopoOrder(inp, AncestorsOf(inp, Roots), <<>>)

\* A BMG graph is acyclic: every ancestor can be ordered.
IsAcyclic(inp) == Len(AllAncestorNodes(inp)) = Cardinality(AncestorsOf(inp, Roots))

\* Graphs as the graph builder produces them: a node's inputs exist before it.
InitialGraphs ==
    {g \in [Node -> UNION {[1..k -> Node] : k \in 0..MaxInputs}] :
        \A n \in Node : \A k \in DOMAIN g[n] : g[n][k] < n}

\* ------------------------------------------------------------ callbacks
\* get_error is None, or a function of (node, index) that yields a diagnostic
\* for the input indexes in `yields` and None for the others.
GetErrorChoices ==
    {[supplied |-> FALSE, yields |-> {}]} \cup
    {[supplied |-> TRUE, yields |-> S] : S \in SUBSET Index}

Diagnostic(n, k) == [node |-> n, index |-> k, input |-> inputs[n][k]]

\* get_error(node, i): <<diagnostic>> or <<>> for None
GetError(n, k) == IF k \in get_error.yields THEN <<Diagnostic(n, k)>> ELSE <<>>

\* The results the call node_fixer(c) can produce.
NodeFixerCall(c) == IF pure THEN {node_fixer[c]} ELSE NodeFixerResult

EmptyDict == <<>>
NoCalls == [n \in Node |-> 0]
NoResults == [n \in Node |-> <<>>]


\* ---------------------------------------------- ancestors_first_graph_fixer
\* The node being enumerated and the input under examination.
CurNode == nodes[pos]
CurInput == inputs[CurNode][i]

\* Inside both loops: `for node in nodes` / `for i in range(len(node.inputs))`.
InInnerLoop == pc = "scan" /\ pos <= Len(nodes) /\ i <= Len(inputs[CurNode])

\* Variant: the reported set is never consulted.
AlreadyReportedNever(c) == FALSE

\* if c in reported
AlreadyReported(c) == c \in reported

\* Variant: the replacement dict is never consulted.
AlreadyReplacedNever(c) == FALSE

\* if c in replacements
AlreadyReplaced(c) == c \in DOMAIN replacements

\* Variant: the original node is memoized instead of its replacement.
MemoizeOriginal(c, r) == (c :> c) @@ replacements

\* Variant: a node returned for itself is not memoized.
MemoizeUnlessSame(c, r) == IF c = r THEN replacements ELSE (c :> r) @@ replacements

\* replacements[c] = replacement
Memoize(c, r) == (c :> r) @@ replacements

\* Variant: the first input is assigned, whatever the index.
SetInputFirst(n, k, r) == [inputs EXCEPT ![n][1] = r]

\* node.inputs[i] = <r>
SetInput(n, k, r) == [inputs EXCEPT ![n][k] = r]

\* Variant: the node is marked reported only if an error was produced.
MarkReportedIfDiagnosed(c) ==
    IF get_error.supplied /\ GetError(nodes[pos], i) # <<>>
       THEN reported \cup {c} ELSE reported

\* reported.add(c)
MarkReported(c) == reported \cup {c}

\* Variant: the reported set outlives the pass.
ReportedKept == reported

\* reported = set(), at the start of a pass
FreshReported == {}

\* errors.add_error(error), when get_error is supplied and returns an error
AddError(n, k) == IF get_error.supplied THEN errors \o GetError(n, k) ELSE errors

\* Variant: the typer is never told.
UpdateTypeNever(n) == typer_updates

\* Variant: the typer is told about every node.
UpdateTypeAlways(n) == Append(typer_updates, n)

\* typer.update_type(node), when node_was_updated
UpdateType(n) == IF node_was_updated THEN Append(typer_updates, n) ELSE typer_updates

\* Variant: the flag is not set.
ProgressNotSet == made_progress

\* made_progress = True, after an edge was rewritten to a fresh fixer result
ProgressAfterFix == TRUE

\* Variant: the scan is abandoned once a node was reported.
NextNodeStopAtFatal == IF reported # {} THEN Len(nodes) + 1 ELSE pos + 1

\* `for node in nodes`: on to the next node, whatever was reported so far
NextNode == pos + 1

NoteCall(c, r) ==
    /\ fixer_calls' = [fixer_calls EXCEPT ![c] = @ + 1]
    /\ fixer_results' = [fixer_results EXCEPT ![c] = Append(@, r)]

\* Calling the graph fixer: lines 124-128 and the entry of the loops.
StartPass ==
    /\ pc = "idle" /\ fm_pc = "off"
    /\ passes < MaxPasses
    /\ IsAcyclic(inputs)
    /\ pc' = "scan"
    /\ errors' = <<>>
    /\ replacements' = EmptyDict
    /\ reported' = FreshReported
    /\ nodes' = AllAncestorNodes(inputs)
    /\ made_progress' = FALSE
    /\ node_was_updated' = FALSE
    /\ pos' = 1 /\ i' = 1
    /\ typer_updates' = <<>>
    /\ fixer_calls' = NoCalls
    /\ fixer_results' = NoResults
    /\ rewritten' = {}
    /\ inputs0' = inputs
    /\ UNCHANGED <<inputs, pure, node_fixer, get_error, passes, returned, fmVars, pfVars>>

\* Lines 134-135: an error was already attempted for this input.
SkipReported ==
    /\ InInnerLoop
    /\ AlreadyReported(CurInput)
    /\ i' = i + 1
    /\ UNCHANGED <<inputs, pure, node_fixer, get_error, pc, passes, nodes, pos,
                   errors, replacements, reported, made_progress,
                   node_was_updated, typer_updates, fixer_calls, fixer_results,
                   rewritten, inputs0, returned, fmVars, pfVars>>

\* Lines 138-142: the input already has a memoized replacement.
UseMemoized ==
    /\ InInnerLoop
    /\ ~AlreadyReported(CurInput)
    /\ AlreadyReplaced(CurInput)
    /\ IF CurInput # replacements[CurInput]
          THEN /\ inputs' = SetInput(CurNode, i, replacements[CurInput])
               /\ node_was_updated' = TRUE
               /\ rewritten' = rewritten \cup {<<CurNode, i>>}
          ELSE UNCHANGED <<inputs, node_was_updated, rewritten>>
    /\ i' = i + 1
    /\ UNCHANGED <<pure, node_fixer, get_error, pc, passes, nodes, pos, errors,
                   replacements, reported, made_progress, typer_updates,
                   fixer_calls, fixer_results, inputs0, returned, fmVars, pfVars>>

\* Lines 144-157: ask the node fixer about the input and act on its result.
FixInput ==
    /\ InInnerLoop
    /\ ~AlreadyReported(CurInput)
    /\ ~AlreadyReplaced(CurInput)
    /\ \E replacement \in NodeFixerCall(CurInput) :
          /\ NoteCall(CurInput, replacement)
          /\ IF IsBMGNode(replacement)
                THEN /\ replacements' = Memoize(CurInput, replacement.node)
                     /\ IF CurInput # replacement.node
                           THEN /\ inputs' = SetInput(CurNode, i, replacement.node)
                                /\ node_was_updated' = TRUE
                                /\ made_progress' = ProgressAfterFix
                                /\ rewritten' = rewritten \cup {<<CurNode, i>>}
                           ELSE UNCHANGED <<inputs, node_was_updated,
                                            made_progress, rewritten>>
                     /\ UNCHANGED <<reported, errors>>
                ELSE IF replacement = Fatal
                THEN /\ reported' = MarkReported(CurInput)
                     /\ errors' = AddError(CurNode, i)
                     /\ UNCHANGED <<replacements, inputs, node_was_updated,
                                    made_progress, rewritten>>
                ELSE UNCHANGED <<replacements, inputs, node_was_updated,
                                 made_progress, rewritten, reported, errors>>
    /\ i' = i + 1
    /\ UNCHANGED <<pure, node_fixer, get_error, pc, passes, nodes, pos,
                   typer_updates, inputs0, returned, fmVars, pfVars>>

\* Lines 159-160 and the step to the next node of the outer loop.
EndNode ==
    /\ pc = "scan" /\ pos <= Len(nodes) /\ i > Len(inputs[CurNode])
    /\ typer_updates' = UpdateType(CurNode)
    /\ node_was_updated' = FALSE
    /\ pos' = NextNode /\ i' = 1
    /\ UNCHANGED <<inputs, pure, node_fixer, get_error, pc, passes, nodes,
                   errors, replacements, reported, made_progress, fixer_calls,
                   fixer_results, rewritten, inputs0, returned, fmVars, pfVars>>

\* Line 161: return made_progress, errors.
Return ==
    /\ pc = "scan" /\ pos > Len(nodes)
    /\ pc' = "idle"
    /\ passes' = passes + 1
    /\ returned' = Append(returned,
            [progress |-> made_progress, errors |-> errors,
             inputs0 |-> inputs0, inputs |-> inputs,
             typer_updates |-> typer_updates, fixer_calls |-> fixer_calls,
             reported |-> reported, replacements |-> replacements,
             nodes |-> nodes])
    /\ UNCHANGED <<inputs, pure, node_fixer, get_error, nodes, pos, i, errors,
                   replacements, reported, made_progress, node_was_updated,
                   typer_updates, fixer_calls, fixer_results, rewritten,
                   inputs0, fmVars, pfVars>>

\* ------------------------------------------- ProblemFixerBase.fix_problems
\* What a subclass answers for a node: _needs_fixing(n), and _get_replacement(n)
\* as a node or None (the base class's _get_replacement returns None).
PolicyChoice ==
    {[needs |-> FALSE, replacement |-> None]} \cup
    {[needs |-> TRUE, replacement |-> r] : r \in {None} \cup {BMGNode(n) : n \in Node}}

\* self._needs_fixing(c)
NeedsFixing(c) == pf_policy[c].needs

\* self._get_replacement(c)
GetReplacement(c) == pf_policy[c].replacement

\* self._get_error(node, i): <<diagnostic>> or <<>> for None (the default)
PfGetError(n, k) ==
    IF k \in get_error.yields
       THEN <<[node |-> n, index |-> k, input |-> pf_inputs[n][k]]>> ELSE <<>>

PfCurNode == pf_nodes[pf_pos]
PfCurInput == pf_inputs[PfCurNode][pf_i]

PfInInnerLoop ==
    pf_pc = "scan" /\ pf_pos <= Len(pf_nodes) /\ pf_i <= Len(pf_inputs[PfCurNode])

\* if c in replacements
PfAlreadyReplaced(c) == c \in DOMAIN pf_replacements

\* Variant: a replacement equal to the node counts as no replacement.
PfRepairedIfChanged(c, r) == r # None /\ r # BMGNode(c)

\* if replacement is not None
PfRepaired(c, r) == r # None

\* Variant: the reported set is never consulted.
PfAlreadyReportedNever(c) == FALSE

\* if c in reported
PfAlreadyReported(c) == c \in pf_reported

\* Variant: a new error report for every call.
PfErrorsFresh == <<>>

\* self.errors, as fix_problems finds it
PfErrorsAtCall == pf_errors

PfCall(op, n, k) == [op |-> op, node |-> n, index |-> k]

\* The diagnostics added to self.errors by the current (or last) call.
PfErrorsBefore == IF pf_calls = 0 THEN 0 ELSE Len(pf_returned[pf_calls].errors)
PfAdded ==
    IF pf_pc = "scan"
       THEN SubSeq(pf_errors, PfErrorsBefore + 1, Len(pf_errors))
       ELSE IF pf_calls = 0 THEN <<>> ELSE pf_returned[pf_calls].added

\* fix_problems(): lines 197-199 and the entry of the loops.
PfStart ==
    /\ pf_pc = "idle"
    /\ pf_calls < MaxPasses
    /\ IsAcyclic(pf_inputs)
    /\ pf_pc' = "scan"
    /\ pf_errors' = PfErrorsAtCall
    /\ pf_replacements' = EmptyDict
    /\ pf_reported' = {}
    /\ pf_nodes' = AllAncestorNodes(pf_inputs)
    /\ pf_node_was_updated' = FALSE
    /\ pf_pos' = 1 /\ pf_i' = 1
    /\ pf_typer_updates' = <<>>
    /\ pf_log' = <<>>
    /\ pf_inputs0' = pf_inputs
    /\ UNCHANGED <<pf_inputs, pf_policy, pf_calls, pf_returned, driverVars, fmVars>>

\* Lines 206-210: the input already has a memoized replacement.
PfUseMemoized ==
    /\ PfInInnerLoop
    /\ PfAlreadyReplaced(PfCurInput)
    /\ IF PfCurInput # pf_replacements[PfCurInput]
          THEN /\ pf_inputs' = [pf_inputs EXCEPT ![PfCurNode][pf_i] =
                                    pf_replacements[PfCurInput]]
               /\ pf_node_was_updated' = TRUE
          ELSE UNCHANGED <<pf_inputs, pf_node_was_updated>>
    /\ pf_i' = pf_i + 1
    /\ UNCHANGED <<pf_policy, pf_pc, pf_calls, pf_nodes, pf_pos, pf_errors,
                   pf_replacements, pf_reported, pf_typer_updates, pf_log,
                   pf_inputs0, pf_returned, driverVars, fmVars>>

\* Lines 211-231: ask the policy about the input and act on its answers.
PfCheckInput ==
    /\ PfInInnerLoop
    /\ ~PfAlreadyReplaced(PfCurInput)
    /\ LET c == PfCurInput
           replacement == GetReplacement(c)
           asked == Append(pf_log, PfCall("needs_fixing", c, 0))
           asked2 == Append(asked, PfCall("get_replacement", c, 0))
       IN  IF ~NeedsFixing(c)
              THEN /\ pf_log' = asked
                   /\ UNCHANGED <<pf_inputs, pf_node_was_updated, pf_errors,
                                  pf_replacements, pf_reported>>
           ELSE IF PfRepaired(c, replacement)
              THEN /\ pf_log' = asked2
                   /\ pf_replacements' = (c :> replacement.node) @@ pf_replacements
                   /\ IF c # replacement.node
                         THEN /\ pf_inputs' = [pf_inputs EXCEPT
                                                  ![PfCurNode][pf_i] = replacement.node]
                              /\ pf_node_was_updated' = TRUE
                         ELSE UNCHANGED <<pf_inputs, pf_node_was_updated>>
                   /\ UNCHANGED <<pf_errors, pf_reported>>
           ELSE IF PfAlreadyReported(c)
              THEN /\ pf_log' = asked2
                   /\ UNCHANGED <<pf_inputs, pf_node_was_updated, pf_errors,
                                  pf_replacements, pf_reported>>
              ELSE /\ pf_log' = Append(asked2, PfCall("get_error", PfCurNode, pf_i))
                   /\ pf_reported' = pf_reported \cup {c}
                   /\ pf_errors' = pf_errors \o PfGetError(PfCurNode, pf_i)
                   /\ UNCHANGED <<pf_inputs, pf_node_was_updated, pf_replacements>>
    /\ pf_i' = pf_i + 1
    /\ UNCHANGED <<pf_policy, pf_pc, pf_calls, pf_nodes, pf_pos,
                   pf_typer_updates, pf_inputs0, pf_returned, driverVars, fmVars>>

\* Lines 232-233 and the step to the next node of the outer loop.
PfEndNode ==
    /\ pf_pc = "scan" /\ pf_pos <= Len(pf_nodes) /\ pf_i > Len(pf_inputs[PfCurNode])
    /\ pf_typer_updates' = IF pf_node_was_updated
                              THEN Append(pf_typer_updates, PfCurNode)
                              ELSE pf_typer_updates
    /\ pf_node_was_updated' = FALSE
    /\ pf_pos' = pf_pos + 1 /\ pf_i' = 1
    /\ UNCHANGED <<pf_inputs, pf_policy, pf_pc, pf_calls, pf_nodes, pf_errors,
                   pf_replacements, pf_reported, pf_log, pf_inputs0,
                   pf_returned, driverVars, fmVars>>

\* fix_problems() returns (None) when the outer loop ends.
PfReturn ==
    /\ pf_pc = "scan" /\ pf_pos > Len(pf_nodes)
    /\ pf_pc' = "idle"
    /\ pf_calls' = pf_calls + 1
    /\ pf_returned' = Append(pf_returned,
            [errors |-> pf_errors, added |-> PfAdded,
             inputs0 |-> pf_inputs0, inputs |-> pf_inputs,
             typer_updates |-> pf_typer_updates, log |-> pf_log,
             reported |-> pf_reported, replacements |-> pf_replacements,
             nodes |-> pf_nodes])
    /\ UNCHANGED <<pf_inputs, pf_policy, pf_nodes, pf_pos, pf_i, pf_errors,
                   pf_replacements, pf_reported, pf_node_was_updated,
                   pf_typer_updates, pf_log, pf_inputs0, driverVars, fmVars>>

\* The policy that expresses a pure node fixer f: no fixing where f returns
\* the node itself, Inapplicable or None; the replacement where f returns
\* another node; no replacement where f returns Fatal.
EquivalentPolicy(f) ==
    [c \in Node |->
        IF IsBMGNode(f[c]) /\ f[c].node # c
           THEN [needs |-> TRUE, replacement |-> f[c]]
        ELSE IF f[c] = Fatal
           THEN [needs |-> TRUE, replacement |-> None]
           ELSE [needs |-> FALSE, replacement |-> None]]

\* ------------------------------------------------------------ combinators
\* The class of each node and the subclass relation isinstance follows.
Classes == {"BMGNode", "OperatorNode", "ConstantNode"}
ClassOf(n) == IF n = 1 THEN "ConstantNode" ELSE "OperatorNode"
IsInstance(n, t) == t = "BMGNode" \/ t = ClassOf(n)

\* A fixer of the list: `guard` is "unguarded" for a plain fixer or the class
\* t of type_guard(t, fixer); `result` is what the (wrapped) fixer returns
\* for fm_node.
FixerChoices(n) ==
    [guard : {"unguarded"} \cup Classes, result : NodeFixerResult]

\* Variant: the guard lets every node through.
GuardedAnyNode(f, n) == f.result

\* guarded(node): fixer(node) if isinstance(node, t) else None
Guarded(f, n) == IF IsInstance(n, f.guard) THEN f.result ELSE None

\* Does calling list entry f on n run the (wrapped) fixer function?
RunsFixer(f, n) == f.guard = "unguarded" \/ IsInstance(n, f.guard)

\* What list entry f returns for node n.
CallFixer(f, n) == IF f.guard = "unguarded" THEN f.result ELSE Guarded(f, n)

\* Variant: None counts as a decisive result.
DecisiveUnlessInapplicable(result) == result # Inapplicable

\* if result is not None and result is not Inapplicable
Decisive(result) == result # None /\ result # Inapplicable

\* first_match(node): one iteration of `for fixer in fixers`.
FirstMatchStep ==
    /\ fm_pc = "loop" /\ fm_k <= Len(fm_fixers)
    /\ LET f == fm_fixers[fm_k]
           result == CallFixer(f, fm_node)
       IN  /\ fm_calls' = Append(fm_calls, [k |-> fm_k, result |-> result])
           /\ fm_inner' = IF RunsFixer(f, fm_node)
                             THEN Append(fm_inner, fm_k) ELSE fm_inner
           /\ IF Decisive(result)
                 THEN /\ fm_result' = result
                      /\ fm_pc' = "returned"
                      /\ fm_k' = fm_k
                 ELSE /\ fm_k' = fm_k + 1
                      /\ UNCHANGED <<fm_result, fm_pc>>
    /\ UNCHANGED <<driverVars, pfVars, fm_node, fm_fixers>>

\* first_match(node): the list is exhausted, return Inapplicable.
FirstMatchExhausted ==
    /\ fm_pc = "loop" /\ fm_k > Len(fm_fixers)
    /\ fm_result' = Inapplicable
    /\ fm_pc' = "returned"
    /\ UNCHANGED <<driverVars, pfVars, fm_node, fm_fixers, fm_k, fm_calls, fm_inner>>

\* --------------------------------------------------------- specifications
FirstMatchOff ==
    /\ fm_node = 1 /\ fm_fixers = <<>> /\ fm_k = 1 /\ fm_calls = <<>>
    /\ fm_inner = <<>> /\ fm_result = None /\ fm_pc = "off"

ProblemFixerIdle ==
    /\ pf_calls = 0 /\ pf_nodes = <<>> /\ pf_pos = 1 /\ pf_i = 1
    /\ pf_errors = <<>> /\ pf_replacements = EmptyDict /\ pf_reported = {}
    /\ pf_node_was_updated = FALSE /\ pf_typer_updates = <<>>
    /\ pf_log = <<>> /\ pf_inputs0 = pf_inputs /\ pf_returned = <<>>

ProblemFixerOff ==
    /\ pf_inputs = [n \in Node |-> <<>>]
    /\ pf_policy = [n \in Node |-> [needs |-> FALSE, replacement |-> None]]
    /\ pf_pc = "off"
    /\ ProblemFixerIdle

DriverIdle ==
    /\ pc = "idle" /\ passes = 0 /\ nodes = <<>> /\ pos = 1 /\ i = 1
    /\ errors = <<>> /\ replacements = EmptyDict /\ reported = {}
    /\ made_progress = FALSE /\ node_was_updated = FALSE
    /\ typer_updates = <<>> /\ fixer_calls = NoCalls
    /\ fixer_results = NoResults /\ rewritten = {}
    /\ inputs0 = inputs /\ returned = <<>>

\* A graph, a node fixer (pure, or an arbitrary callable) and a get_error.
Init ==
    /\ inputs \in InitialGraphs
    /\ pure \in BOOLEAN
    /\ node_fixer \in IF pure THEN [Node -> NodeFixerResult]
                              ELSE {[n \in Node |-> Inapplicable]}
    /\ get_error \in GetErrorChoices
    /\ DriverIdle
    /\ FirstMatchOff
    /\ ProblemFixerOff

Next ==
    \/ StartPass
    \/ SkipReported
    \/ UseMemoized
    \/ FixInput
    \/ EndNode
    \/ Return

Spec == Init /\ [][Next]_vars

\* The same driver with a pure (deterministic) node fixer.
InitPure == Init /\ pure

SpecPure == InitPure /\ [][Next]_vars

\* first_match applied to one node, over a list of plain and guarded fixers.
InitFirstMatch ==
    /\ inputs = [n \in Node |-> <<>>]
    /\ pure = TRUE
    /\ node_fixer = [n \in Node |-> Inapplicable]
    /\ get_error = [supplied |-> FALSE, yields |-> {}]
    /\ DriverIdle
    /\ fm_node \in Node
    /\ fm_fixers \in UNION {[1..k -> FixerChoices(fm_node)] : k \in 0..MaxFixers}
    /\ fm_k = 1 /\ fm_calls = <<>> /\ fm_inner = <<>>
    /\ fm_result = None /\ fm_pc = "loop"
    /\ ProblemFixerOff

NextFirstMatch == FirstMatchStep \/ FirstMatchExhausted

SpecFirstMatch == InitFirstMatch /\ [][NextFirstMatch]_vars

\* A ProblemFixerBase subclass with any policy, on its own.
InitProblemFixer ==
    /\ inputs = [n \in Node |-> <<>>]
    /\ pure = TRUE
    /\ node_fixer = [n \in Node |-> Inapplicable]
    /\ get_error \in {g \in GetErrorChoices : g.supplied}
    /\ DriverIdle
    /\ FirstMatchOff
    /\ pf_inputs \in InitialGraphs
    /\ pf_policy \in [Node -> PolicyChoice]
    /\ pf_pc = "idle"
    /\ ProblemFixerIdle

NextProblemFixer == PfStart \/ PfUseMemoized \/ PfCheckInput \/ PfEndNode \/ PfReturn

SpecProblemFixer == InitProblemFixer /\ [][NextProblemFixer]_vars

\* The graph fixer with a pure node fixer and a ProblemFixerBase instance
\* with the equivalent policy and the same get_error, each on its own copy
\* of one graph; call p of fix_problems follows pass p of the graph fixer.
InitBoth ==
    /\ inputs \in InitialGraphs
    /\ pure = TRUE
    /\ node_fixer \in [Node -> NodeFixerResult]
    /\ get_error \in GetErrorChoices
    /\ DriverIdle
    /\ FirstMatchOff
    /\ pf_inputs = inputs
    /\ pf_policy = EquivalentPolicy(node_fixer)
    /\ pf_pc = "idle"
    /\ ProblemFixerIdle

\* Pass p + 1 of the graph fixer starts after call p of fix_problems.
StartPassInTurn == pf_pc = "idle" /\ pf_calls = passes /\ StartPass

\* Call p of fix_problems starts after pass p of the graph fixer.
PfStartInTurn == pc = "idle" /\ pf_calls < passes /\ PfStart

NextBoth ==
    \/ StartPassInTurn
    \/ SkipReported
    \/ UseMemoized
    \/ FixInput
    \/ EndNode
    \/ Return
    \/ PfStartInTurn
    \/ PfUseMemoized
    \/ PfCheckInput
    \/ PfEndNode
    \/ PfReturn

SpecBoth == InitBoth /\ [][NextBoth]_vars


\* ------------------------------------------------ vocabulary of the claims
\* A pass has run to its return and no other has started since.
PassDone == pc = "idle" /\ passes >= 1

\* The input edges of the traversed nodes, as they were when the pass began.
TraversedEdges == {e \in Node \X Index : e[1] \in Range(nodes) /\ e[2] \in DOMAIN inputs0[e[1]]}

\* Those that pointed at c, and the nodes they belong to.
EdgesAt(c) == {e \in TraversedEdges : inputs0[e[1]][e[2]] = c}
ConsumersOf(c) == {e[1] : e \in EdgesAt(c)}

\* The diagnostics of the error report that are about input c.
DiagnosticsOf(c) == {k \in DOMAIN errors : errors[k].input = c}

\* get_error yields a diagnostic for every edge.
GetErrorTotal == get_error.supplied /\ get_error.yields = Index

\* The position of a traversed node in the order.
PosOf(n) == CHOOSE p \in DOMAIN nodes : nodes[p] = n

\* The node's own pass over its inputs is over, update_type included.
Processed(n) ==
    /\ n \in Range(nodes)
    /\ PosOf(n) < pos
    /\ (\E k \in Index : <<n, k>> \in rewritten) => n \in Range(typer_updates)

HasRewrittenEdge(n) == \E k \in Index : <<n, k>> \in rewritten

\* ------------------------------------------------------------------ C1
\* C1: in a pass, for any graph and any fixer, a node contributes at most one
\* diagnostic to the error report however many input edges point at it; a
\* node judged Fatal is diagnosed exactly once when get_error yields a
\* diagnostic for every edge, and with a pure fixer so is, by the end of the
\* pass, every Fatal node that was an input of a traversed node.
C1_FatalDiagnosedOnce ==
    \A c \in Node :
        /\ Cardinality(DiagnosticsOf(c)) <= 1
        /\ (GetErrorTotal /\ c \in reported) => Cardinality(DiagnosticsOf(c)) = 1
        /\ (GetErrorTotal /\ PassDone /\ pure /\ node_fixer[c] = Fatal
                /\ EdgesAt(c) # {}) => Cardinality(DiagnosticsOf(c)) = 1

\* A finished pass in which a reported node was the input of two consumers
\* and has its single diagnostic.
C1_Witness ==
    /\ PassDone /\ GetErrorTotal
    /\ \E c \in reported :
          /\ Cardinality(ConsumersOf(c)) >= 2
          /\ Cardinality(EdgesAt(c)) >= 2
          /\ Cardinality(DiagnosticsOf(c)) = 1

\* ------------------------------------------------------------------ C2
\* C2 as stated: in a pass the node fixer is invoked at most once on any
\* node, whatever it returns.
C2_AtMostOneCallPerNode == \A c \in Node : fixer_calls[c] <= 1

\* C2, amended: once the fixer has returned a node (the same or another) or
\* Fatal for c it is never invoked on c again in the pass; only a node it
\* answered with Inapplicable or None is passed to it again, once for each
\* later examined edge pointing at it.
C2_NoCallAfterDecisiveResult ==
    \A c \in Node :
        /\ \A k \in 1..(Len(fixer_results[c]) - 1) : ~Decisive(fixer_results[c][k])
        /\ fixer_calls[c] = Len(fixer_results[c])
        /\ fixer_calls[c] <= Cardinality(EdgesAt(c))
        /\ (AlreadyReplaced(c) \/ AlreadyReported(c)) =>
              /\ fixer_calls[c] >= 1
              /\ Decisive(fixer_results[c][fixer_calls[c]])

\* A finished pass where a node with two consumers was replaced after a
\* single call.
C2_Witness ==
    /\ PassDone
    /\ \E c \in DOMAIN replacements :
          /\ replacements[c] # c
          /\ Cardinality(ConsumersOf(c)) >= 2
          /\ fixer_calls[c] = 1

\* ------------------------------------------------------------------ C3
\* C3: with a pure fixer that maps c to a replacement r, at the end of the
\* pass every input edge of a traversed node that pointed at c when the pass
\* began points at r.
C3_ParentsConverge ==
    PassDone =>
        \A e \in TraversedEdges :
            LET c == inputs0[e[1]][e[2]]
            IN  (IsBMGNode(node_fixer[c]) /\ node_fixer[c].node # c)
                    => inputs[e[1]][e[2]] = node_fixer[c].node

\* A finished pass where a replaced node had two consumers.
C3_Witness ==
    /\ PassDone
    /\ \E c \in Node :
          /\ IsBMGNode(node_fixer[c]) /\ node_fixer[c].node # c
          /\ Cardinality(ConsumersOf(c)) >= 2
          /\ \A e \in EdgesAt(c) : inputs[e[1]][e[2]] = node_fixer[c].node

\* ------------------------------------------------------------------ C4
\* C4: with the nodes in inputs-before-consumers order, an input that is
\* about to be, or has been, handed to the node fixer was processed as a
\* consumer before: it stands earlier in the order than the current node, so
\* all its input edges were examined, and if one of them was rewritten
\* update_type was called for it.
C4_FixedAfterProcessed ==
    /\ (InInnerLoop /\ ~AlreadyReported(CurInput) /\ ~AlreadyReplaced(CurInput))
            => Processed(CurInput)
    /\ \A c \in Node : (pc = "scan" /\ fixer_calls[c] > 0) => Processed(c)

\* The fixer was invoked on a node whose own edge had been rewritten and
\* whose type had been updated.
C4_Witness ==
    /\ pc = "scan"
    /\ \E c \in Node :
          /\ fixer_calls[c] > 0
          /\ HasRewrittenEdge(c)
          /\ c \in Range(typer_updates)

\* ------------------------------------------------------------------ C5
\* C5: update_type is called once for each node one of whose input edges was
\* rewritten and for no other node, between the node's last input edge and
\* the next node's first: at every moment the calls made are exactly the
\* already finished nodes with a rewritten edge, in traversal order.
C5_UpdateTypeOncePerRewrittenNode ==
    typer_updates = SelectSeq(SubSeq(nodes, 1, pos - 1), HasRewrittenEdge)

\* In the middle of a node's inputs, after one earlier node was updated and
\* another was left alone, with an edge of the current node already rewritten.
C5_Witness ==
    /\ InInnerLoop /\ i > 1
    /\ HasRewrittenEdge(CurNode)
    /\ Len(typer_updates) = 1
    /\ \E n \in Range(SubSeq(nodes, 1, pos - 1)) : ~HasRewrittenEdge(n)

\* ------------------------------------------------------------------ C6
\* C6: a Fatal result does not stop the pass: when the pass returns, every
\* node of the order has been processed, and with a pure fixer every node
\* that was an input of a traversed node and is judged Fatal is in the
\* reported set, with its diagnostic in the error report if get_error yields
\* one for every edge.
C6_FatalDoesNotStopThePass ==
    PassDone =>
        /\ pos = Len(nodes) + 1
        /\ \A e \in TraversedEdges :
              LET c == inputs0[e[1]][e[2]]
              IN  /\ AlreadyReported(c) \/ AlreadyReplaced(c) \/ fixer_calls[c] > 0
                  /\ node_fixer[c] = Fatal =>
                        /\ c \in reported
                        /\ GetErrorTotal => DiagnosticsOf(c) # {}

\* A finished pass that reported two nodes, the second at a node enumerated
\* after the one where the first was reported.
C6_Witness ==
    /\ PassDone /\ pure /\ GetErrorTotal
    /\ Cardinality(reported) >= 2
    /\ Len(errors) >= 2
    /\ errors[1].node # errors[2].node

\* ------------------------------------------------------------------ C7
\* C7: made_progress, the boolean the pass returns, is true exactly when an
\* input edge of a traversed node was rewritten in the pass; an edge about to
\* be rewritten from the memoized replacement is met only with the flag set.
C7_ProgressIffRewritten ==
    /\ made_progress <=> rewritten # {}
    /\ (pc = "scan" \/ PassDone) => (made_progress <=> inputs # inputs0)
    /\ (InInnerLoop /\ ~AlreadyReported(CurInput) /\ AlreadyReplaced(CurInput)
            /\ CurInput # replacements[CurInput]) => made_progress
    /\ \A p \in DOMAIN returned :
          returned[p].progress <=> returned[p].inputs # returned[p].inputs0

\* A finished pass that rewrote one edge after the fixer's call and another
\* from the memoized replacement.
C7_Witness ==
    /\ PassDone /\ made_progress
    /\ \E c \in Node :
          /\ fixer_calls[c] = 1
          /\ Cardinality(EdgesAt(c) \cap rewritten) >= 2

\* ------------------------------------------------------------------ C8
\* C8: with a pure fixer, a pass that follows a pass that returned
\* progress = false returns progress = false as well, changes no input edge,
\* calls update_type for no node and reports no diagnostic the earlier pass
\* did not report.
C8_IdempotentAfterNoProgress ==
    \A p \in DOMAIN returned :
        (p > 1 /\ ~returned[p - 1].progress) =>
            /\ ~returned[p].progress
            /\ returned[p].inputs0 = returned[p - 1].inputs
            /\ returned[p].inputs = returned[p].inputs0
            /\ returned[p].typer_updates = <<>>
            /\ Range(returned[p].errors) \subseteq Range(returned[p - 1].errors)

\* Two finished passes without progress, the fixer asked and an error
\* reported in each.
C8_Witness ==
    /\ Len(returned) >= 2
    /\ ~returned[1].progress
    /\ returned[2].errors # <<>>
    /\ \E c \in Node : returned[2].fixer_calls[c] > 0 /\ c \notin returned[2].reported

\* ------------------------------------------------------------------ C9
\* The list positions whose fixer gives a decisive result for fm_node.
DecisivePositions ==
    {k \in DOMAIN fm_fixers :
        LET r == CallFixer(fm_fixers[k], fm_node)
        IN  r.kind = "Node" \/ r.kind = "Fatal"}

\* C9: first_match invokes the fixers in list order and returns the result
\* of the first one that gives a node or Fatal, invoking none after it; when
\* every fixer answers Inapplicable or None, or the list is empty, it invokes
\* them all and returns Inapplicable.
C9_FirstMatchReturnsFirstDecisive ==
    /\ \A j \in DOMAIN fm_calls : fm_calls[j].k = j
    /\ fm_pc = "returned" =>
          IF DecisivePositions = {}
             THEN /\ fm_result = Inapplicable
                  /\ Len(fm_calls) = Len(fm_fixers)
             ELSE /\ fm_result = CallFixer(fm_fixers[Min(DecisivePositions)], fm_node)
                  /\ Len(fm_calls) = Min(DecisivePositions)
                  /\ fm_result.kind \in {"Node", "Fatal"}

\* first_match returned the node itself from the second fixer after the
\* first answered None.
C9_Witness ==
    /\ fm_pc = "returned"
    /\ Len(fm_fixers) = 2 /\ Len(fm_calls) = 2
    /\ fm_calls[1].result = None
    /\ fm_result = BMGNode(fm_node)

\* ------------------------------------------------------------------ C10
\* The classes a node is an instance of: its own and BMGNode, the base.
InstanceClasses(n) == {"BMGNode", ClassOf(n)}

\* C10: a fixer wrapped by type_guard(t, fixer) runs only on nodes that are
\* instances of t; for any other node the guarded fixer returns None without
\* running it, which first_match takes as declining, and for an instance of
\* t it returns the wrapped fixer's result.
C10_TypeGuardIsolates ==
    \A j \in DOMAIN fm_calls :
        LET f == fm_fixers[fm_calls[j].k]
        IN  f.guard # "unguarded" =>
                IF f.guard \in InstanceClasses(fm_node)
                   THEN /\ fm_calls[j].result = f.result
                        /\ fm_calls[j].k \in Range(fm_inner)
                   ELSE /\ fm_calls[j].result = None
                        /\ fm_calls[j].k \notin Range(fm_inner)
                        /\ (fm_pc = "returned" /\ j = Len(fm_calls))
                               => fm_result = Inapplicable

\* first_match went past a guarded fixer that would have given Fatal for a
\* node of another class and returned the result of a guarded fixer of the
\* node's class.
C10_Witness ==
    /\ fm_pc = "returned"
    /\ Len(fm_calls) = 2
    /\ fm_fixers[1].guard \in Classes \ InstanceClasses(fm_node)
    /\ fm_fixers[1].result = Fatal
    /\ fm_fixers[2].guard \in InstanceClasses(fm_node) \ {"BMGNode"}
    /\ fm_inner = <<2>>
    /\ fm_result = fm_fixers[2].result
    /\ IsBMGNode(fm_result)

\* ------------------------------------------------------------------ C11
\* C11: for a pure node fixer and the policy that expresses it, with the same
\* get_error, fix_problems() and a pass of the graph fixer started on the
\* same graph leave the same input edges on every node, add the same
\* diagnostics in the same order and make the same update_type calls in the
\* same order.
C11_FixProblemsMatchesGraphFixer ==
    \A p \in DOMAIN pf_returned :
        /\ p \in DOMAIN returned
        /\ pf_returned[p].inputs0 = returned[p].inputs0
        /\ pf_returned[p].nodes = returned[p].nodes
        /\ pf_returned[p].inputs = returned[p].inputs
        /\ pf_returned[p].added = returned[p].errors
        /\ pf_returned[p].typer_updates = returned[p].typer_updates

\* Both have run once on a graph where two nodes had an edge rewritten, one
\* of them from the memoized answer, and a node was reported.
C11_Witness ==
    /\ Len(pf_returned) >= 1
    /\ Len(pf_returned[1].typer_updates) >= 2
    /\ pf_returned[1].added # <<>>
    /\ \E c \in DOMAIN returned[1].replacements :
          returned[1].fixer_calls[c] = 1 /\ returned[1].replacements[c] # c

\* ------------------------------------------------------------------ C12
\* C12 as stated: a pass applies the node fixer to every node of the list
\* all_ancestor_nodes() returns, the nodes that are no input of a traversed
\* node included.
C12_EveryAncestorFixed ==
    PassDone => \A n \in Range(nodes) : fixer_calls[n] >= 1

\* C12, amended: a pass applies the node fixer to exactly the nodes that are
\* an input of a traversed node when the pass starts; a node of the list
\* that is no input of any traversed node, such as a root, is never handed
\* to the fixer.
C12_ExactlyTheInputsFixed ==
    PassDone => \A n \in Node : fixer_calls[n] >= 1 <=> EdgesAt(n) # {}

\* A finished pass over three nodes in which both inputs of the root were
\* handed to the fixer.
C12_Witness ==
    /\ PassDone
    /\ Len(nodes) = 3
    /\ fixer_calls[nodes[3]] = 0
    /\ fixer_calls[nodes[1]] >= 1 /\ fixer_calls[nodes[2]] >= 1

\* ------------------------------------------------------------------ C13
\* C13 as stated: at the end of a pass no input edge of a traversed node
\* points at a node whose replacement entry is another node.
C13_NoEdgeAtReplacedNode ==
    PassDone =>
        \A e \in TraversedEdges :
            LET c == inputs[e[1]][e[2]]
            IN  ~(AlreadyReplaced(c) /\ replacements[c] # c)

\* C13, amended: with a pure fixer, at the end of a pass no input edge of a
\* traversed node that pointed at c when the pass started still points at c
\* if c's replacement entry is another node; an edge that came to point at c
\* because c was installed as the replacement of another node is not
\* examined again and keeps pointing at c.
C13_NoOriginalEdgeAtReplacedNode ==
    PassDone =>
        \A e \in TraversedEdges :
            LET c == inputs[e[1]][e[2]]
            IN  (AlreadyReplaced(c) /\ replacements[c] # c) =>
                    /\ inputs0[e[1]][e[2]] # c
                    /\ AlreadyReplaced(inputs0[e[1]][e[2]])
                    /\ replacements[inputs0[e[1]][e[2]]] = c

\* A finished pass that rewrote two edges that pointed at a replaced node,
\* and a third to point at a node that has a replacement itself.
C13_Witness ==
    /\ PassDone
    /\ \E c \in DOMAIN replacements :
          /\ replacements[c] # c
          /\ Cardinality(EdgesAt(c)) >= 2
          /\ \A e \in EdgesAt(c) : inputs[e[1]][e[2]] = replacements[c]
    /\ \E e \in TraversedEdges :
          LET c == inputs[e[1]][e[2]]
          IN  AlreadyReplaced(c) /\ replacements[c] # c

\* ------------------------------------------------------------------ C14
\* The step in which the node fixer is called on the current input and
\* returns that very node.
SelfReturnStep ==
    /\ InInnerLoop
    /\ fixer_results' # fixer_results
    /\ fixer_results'[CurInput] = Append(fixer_results[CurInput], BMGNode(CurInput))

\* What a self-return leaves alone: the edges, the consumer's updated mark
\* and the progress flag.
SelfReturnFrame ==
    /\ inputs' = inputs
    /\ rewritten' = rewritten
    /\ node_was_updated' = node_was_updated
    /\ made_progress' = made_progress
    /\ typer_updates' = typer_updates
    /\ reported' = reported /\ errors' = errors

\* C14 as stated: when the fixer returns the node it was given, the driver
\* rewrites no edge, does not mark the consumer updated, does not set
\* progress and adds no entry for the node to the replacement map.
C14_SelfReturnNotMemoized ==
    [][SelfReturnStep => (SelfReturnFrame /\ replacements' = replacements)]_vars

\* C14, amended: when the fixer returns the node it was given, the driver
\* rewrites no edge, does not mark the consumer updated and does not set
\* progress, but it does memoize the entry c -> c in the replacement map.
C14_SelfReturnMemoizedOnly ==
    [][SelfReturnStep =>
          (SelfReturnFrame
             /\ replacements' = (CurInput :> CurInput) @@ replacements)]_vars

\* A finished pass without progress in which the fixer returned a node with
\* two input edges for itself, once.
C14_Witness ==
    /\ PassDone /\ ~made_progress
    /\ \E c \in Node :
          /\ fixer_results[c] = <<BMGNode(c)>>
          /\ Cardinality(EdgesAt(c)) >= 2
          /\ AlreadyReplaced(c) /\ replacements[c] = c
          /\ \A e \in EdgesAt(c) : inputs[e[1]][e[2]] = c

\* ------------------------------------------------------------------ C15
\* The place of an edge in the scan, and the edges the scan has passed.
EdgeRank(e) == PosOf(e[1]) * (MaxInputs + 1) + e[2]
Examined(e) == PosOf(e[1]) < pos \/ (PosOf(e[1]) = pos /\ e[2] < i)

\* The edge at which the scan first meets c.
FirstEdgeAt(c) ==
    CHOOSE e \in EdgesAt(c) : \A f \in EdgesAt(c) : EdgeRank(e) <= EdgeRank(f)

\* C15: once the scan has passed the first edge at a node c the pure fixer
\* judges Fatal, c is in the reported set; if get_error is not supplied or
\* yields nothing for that edge, no diagnostic about c is in the error report
\* then or later in the pass, whatever get_error yields for the later edges
\* at c; if it yields one, that is the only diagnostic about c.
C15_UndiagnosedFatalStaysSilent ==
    (pc = "scan" \/ PassDone) =>
        \A c \in Node :
            (node_fixer[c] = Fatal /\ EdgesAt(c) # {} /\ Examined(FirstEdgeAt(c))) =>
                /\ c \in reported
                /\ IF get_error.supplied /\ FirstEdgeAt(c)[2] \in get_error.yields
                      THEN \E k \in DOMAIN errors :
                              /\ DiagnosticsOf(c) = {k}
                              /\ <<errors[k].node, errors[k].index>> = FirstEdgeAt(c)
                      ELSE DiagnosticsOf(c) = {}

\* A finished pass that reported a node without a diagnostic although
\* get_error yields one for a later edge at it.
C15_Witness ==
    /\ PassDone /\ get_error.supplied
    /\ \E c \in reported :
          /\ DiagnosticsOf(c) = {}
          /\ \E e \in EdgesAt(c) :
                e # FirstEdgeAt(c) /\ e[2] \in get_error.yields

\* ------------------------------------------------------------------ C16
\* A step writes at most the edge under examination, once, and the scan
\* only moves forward.
OnlyCurrentEdgeWritten ==
    /\ \A n \in Node :
          /\ DOMAIN inputs'[n] = DOMAIN inputs[n]
          /\ \A k \in DOMAIN inputs[n] :
                inputs'[n][k] # inputs[n][k] =>
                    /\ InInnerLoop /\ n = CurNode /\ k = i
                    /\ <<n, k>> \notin rewritten
                    /\ pos' = pos /\ i' = i + 1
    /\ (pc = "scan" /\ pc' = "scan") =>
          (pos' > pos \/ (pos' = pos /\ i' > i))

\* Every written edge holds the replacement memoized for the node it pointed
\* at, every other edge what it held when the pass started.
WrittenEdgesKeepReplacement ==
    \A n \in Node :
        /\ Len(inputs[n]) = Len(inputs0[n])
        /\ \A k \in DOMAIN inputs0[n] :
              IF <<n, k>> \in rewritten
                 THEN /\ n \in Range(nodes) /\ Examined(<<n, k>>)
                      /\ AlreadyReplaced(inputs0[n][k])
                      /\ inputs[n][k] = replacements[inputs0[n][k]]
                      /\ inputs[n][k] # inputs0[n][k]
                 ELSE inputs[n][k] = inputs0[n][k]

\* C16: within a pass an input edge (n, i) is written at most once and only
\* while n is the node being processed; a written edge keeps its
\* replacement until the pass returns, whatever is judged Fatal afterwards,
\* and no node gains or loses an input.
C16_NoRollback ==
    [][OnlyCurrentEdgeWritten /\ WrittenEdgesKeepReplacement']_vars

\* A finished pass that rewrote an edge and reported a node at a later edge.
C16_Witness ==
    /\ PassDone
    /\ \E e \in rewritten : \E k \in DOMAIN errors :
          /\ EdgeRank(e) < EdgeRank(<<errors[k].node, errors[k].index>>)
          /\ inputs[e[1]][e[2]] = replacements[inputs0[e[1]][e[2]]]

\* ------------------------------------------------------------------ C17
\* The inputs of the traversed nodes at the start of a finished pass or call.
InputsTraversed(r) == UNION {Range(r.inputs0[n]) : n \in Range(r.nodes)}

\* The number of diagnostics about input c in an error report.
DiagnosticCount(errs, c) == Cardinality({k \in DOMAIN errs : errs[k].input = c})

\* C17: every pass of the graph fixer and every call of fix_problems starts
\* with an empty replacement map and an empty reported set; in each pass a
\* node the pure fixer judges Fatal that is an input of a traversed node is
\* handed to the fixer and reported again, and the error report the pass
\* returns holds the diagnostics of that pass alone, one per reported node
\* when get_error yields for every edge; the error report of the
\* ProblemFixerBase instance grows from call to call and holds one
\* diagnostic about such a node for every call in which it was an input.
C17_NoMemoryAcrossPasses ==
    /\ (pc = "scan" /\ pos = 1 /\ i = 1) =>
          (replacements = EmptyDict /\ reported = {} /\ errors = <<>>)
    /\ (pf_pc = "scan" /\ pf_pos = 1 /\ pf_i = 1) =>
          (pf_replacements = EmptyDict /\ pf_reported = {})
    /\ \A p \in DOMAIN returned :
          /\ GetErrorTotal =>
                Len(returned[p].errors) = Cardinality(returned[p].reported)
          /\ \A c \in InputsTraversed(returned[p]) :
                node_fixer[c] = Fatal =>
                    /\ returned[p].fixer_calls[c] = 1
                    /\ c \in returned[p].reported
                    /\ GetErrorTotal => DiagnosticCount(returned[p].errors, c) = 1
    /\ \A p \in DOMAIN pf_returned :
          /\ pf_returned[p].errors =
                (IF p = 1 THEN <<>> ELSE pf_returned[p - 1].errors)
                    \o pf_returned[p].added
          /\ \A c \in InputsTraversed(pf_returned[p]) :
                node_fixer[c] = Fatal =>
                    /\ PfCall("get_replacement", c, 0) \in Range(pf_returned[p].log)
                    /\ c \in pf_returned[p].reported
          /\ \A c \in Node :
                (GetErrorTotal /\ node_fixer[c] = Fatal) =>
                    DiagnosticCount(pf_returned[p].errors, c) =
                        Cardinality({q \in 1..p : c \in InputsTraversed(pf_returned[q])})

\* Two passes and two calls over a graph with a Fatal input: each pass
\* returned a report with its one diagnostic, the instance's report holds two.
C17_Witness ==
    /\ Len(returned) = 2 /\ Len(pf_returned) = 2 /\ GetErrorTotal
    /\ \E c \in Node :
          /\ node_fixer[c] = Fatal
          /\ DiagnosticCount(returned[1].errors, c) = 1
          /\ DiagnosticCount(returned[2].errors, c) = 1
          /\ Len(returned[2].errors) = 1
          /\ DiagnosticCount(pf_errors, c) = 2

\* ------------------------------------------------------------------ C18
\* fix_problems is running or has run.
PfCalled == pf_pc = "scan" \/ pf_calls >= 1

\* The policy says c needs fixing and gives c itself as its replacement.
ReplacedByItself(c) == NeedsFixing(c) /\ GetReplacement(c) = BMGNode(c)

\* The input edges of the traversed nodes that pointed at c at the call.
PfEdgesAt(c) ==
    {e \in Node \X Index :
        /\ e[1] \in Range(pf_nodes)
        /\ e[2] \in DOMAIN pf_inputs0[e[1]]
        /\ pf_inputs0[e[1]][e[2]] = c}

PfHasRewrittenEdge(n) == pf_inputs[n] # pf_inputs0[n]

\* C18: in fix_problems, a node that needs fixing and is given itself as
\* replacement is passed over: no edge at it is rewritten, update_type is
\* called only for nodes with a rewritten edge, the node is not put in
\* the reported set, get_error is not called for an edge at it and no
\* diagnostic about it is recorded; get_error is called only for an edge at
\* a node for which _get_replacement has just returned None.
C18_SelfReplacementSkipped ==
    PfCalled =>
        /\ \A c \in Node :
              ReplacedByItself(c) =>
                  /\ c \notin pf_reported
                  /\ \A e \in PfEdgesAt(c) :
                        /\ pf_inputs[e[1]][e[2]] = c
                        /\ PfCall("get_error", e[1], e[2]) \notin Range(pf_log)
                  /\ DiagnosticCount(PfAdded, c) = 0
        /\ pf_typer_updates =
              SelectSeq(SubSeq(pf_nodes, 1, pf_pos - 1), PfHasRewrittenEdge)
        /\ \A j \in DOMAIN pf_log :
              pf_log[j].op = "get_error" =>
                  LET c == pf_inputs0[pf_log[j].node][pf_log[j].index]
                  IN  /\ NeedsFixing(c) /\ GetReplacement(c) = None
                      /\ j > 1 /\ pf_log[j - 1] = PfCall("get_replacement", c, 0)

\* A finished call that asked for the replacement of a node with two input
\* edges, got the node itself and left both edges alone, and recorded a
\* diagnostic about another node.
C18_Witness ==
    /\ pf_pc = "idle" /\ pf_calls = 1
    /\ pf_errors # <<>>
    /\ \E c \in Node :
          /\ ReplacedByItself(c)
          /\ Cardinality(PfEdgesAt(c)) >= 2
          /\ PfCall("get_replacement", c, 0) \in Range(pf_log)
          /\ PfAlreadyReplaced(c) /\ pf_replacements[c] = c
          /\ \A e \in PfEdgesAt(c) : pf_inputs[e[1]][e[2]] = c

\* ------------------------------------------------------------------ C19
\* The nodes with an entry in the Replacement Map.
Replaced == DOMAIN replacements

\* The two sets share no node, and each holds exactly the nodes whose last
\* fixer result in this pass put them there.
ReplacedAndReportedApart ==
    /\ Replaced \cap reported = {}
    /\ \A c \in Node :
          LET last == IF fixer_results[c] = <<>> THEN None
                      ELSE fixer_results[c][Len(fixer_results[c])]
          IN  /\ c \in reported <=> last = Fatal
              /\ c \in Replaced <=>
                    (last \notin {None, Fatal, Inapplicable}
                        /\ last = BMGNode(replacements[c]))

\* Within a pass a node stays in the set it is in, keeps its replacement,
\* and is not passed to the fixer again.
SettledNodesStay ==
    (pc = "scan" /\ pc' = "scan") =>
        \A c \in Replaced \cup reported :
            /\ fixer_calls'[c] = fixer_calls[c]
            /\ c \in reported => (c \in reported' /\ c \notin DOMAIN replacements')
            /\ c \in Replaced =>
                  /\ c \in DOMAIN replacements' /\ c \notin reported'
                  /\ replacements'[c] = replacements[c]

\* C19: throughout a pass, for any fixer, stateful ones included, the key
\* set of the Replacement Map and the Reported Set are disjoint; a reported
\* node never gets a replacement entry, and a node with a replacement
\* entry is never reported nor passed to the fixer again.
C19_ReplacedReportedDisjoint == [](ReplacedAndReportedApart) /\ [][SettledNodesStay]_vars

\* A finished pass of a stateful fixer in which a node with two input edges
\* was reported after one call, and another node was replaced.
C19_Witness ==
    /\ PassDone /\ ~pure
    /\ Replaced # {}
    /\ \E c \in reported :
          /\ Cardinality(EdgesAt(c)) >= 2
          /\ fixer_calls[c] = 1

=============================================================================
